---- MODULE Spec2Model ----
(***************************************************************************)
(* Model of package errors (src/errors.go): the Error record, the builder  *)
(* E, the renderers Msg, Error and MarshalJSON, and the accessors Cause    *)
(* and IsKind.                                                             *)
(*                                                                         *)
(* Go values are modelled as follows.                                      *)
(*   - A string is a sequence of one-character strings.                    *)
(*   - An `error` interface value is [tag, at]: the nil interface, a       *)
(*     pointer to an errorString (index into leaves) or a pointer to an    *)
(*     Error (index into recs).  Pointers held in interfaces are non-nil.  *)
(*   - A MetaData / map[string]interface{} value is a reference: 0 is the  *)
(*     nil map, m > 0 is the map whose contents are maps[m], a set of      *)
(*     <<key, value>> pairs.                                               *)
(* Objects no longer referenced after a call (the garbage collector's      *)
(* business) are not kept in the heaps.                                    *)
(***************************************************************************)
EXTENDS Integers, Sequences, FiniteSets, TLC

VARIABLES
    recs,     \* heap of Error structs, in allocation order
    leaves,   \* heap of errorString structs: their text
    maps,     \* heap of maps: their contents
    origOf,   \* history: for a record built by E from an *Error argument, that argument's address
    ret       \* the call the caller is looking at: its operation, its arguments and
              \* what it returned; NoRet between calls

vars == <<recs, leaves, maps, origOf, ret>>

\* ---------------------------------------------------------------- bounds

MaxArgs == 3        \* longest argument list of a free-form call
MaxRecs == 3        \* Error structs on the heap
MaxChainRecs == 5   \* Error structs on the heap when only chains are built

\* ---------------------------------------------------------------- Kind

Unknown == 0
Invalid == 1
Permission == 2
IO == 3
Duplicated == 4
NotExist == 5
Private == 6
Internal == 7
Decrypt == 8
Unmarshal == 9
Transient == 10
Unsupported == 11
NotAcceptable == 12

KindString(k) ==
    CASE k = Unknown -> "Unknown error"
      [] k = Invalid -> "invalid operation"
      [] k = Permission -> "permission denied"
      [] k = IO -> "I/O error"
      [] k = Duplicated -> "item already exists"
      [] k = NotExist -> "item does not exist"
      [] k = Private -> "information withheld"
      [] k = Internal -> "internal error"
      [] k = Decrypt -> "invalid encryption"
      [] k = Unmarshal -> "invalid data"
      [] k = Transient -> "transient error"
      [] k = Unsupported -> "unsupported"
      [] k = NotAcceptable -> "not accepted"
      [] OTHER -> "unknown error kind"

\* ---------------------------------------------------------------- inputs

\* The Kinds, messages, leaf texts and map contents the calls are made with.
KindArgs == {Unknown, IO, Decrypt}
Msgs == {<<>>, <<"a">>, <<"b", ":", "c">>}
LeafTexts == {<<"f">>}
MapContents == {{}, {<<"foo", "bar">>}}

\* ---------------------------------------------------------------- values

NilErr == [tag |-> "nil", at |-> 0]
LeafAt(i) == [tag |-> "leaf", at |-> i]
RecAt(i) == [tag |-> "rec", at |-> i]

\* The zero value of struct Error.
ZeroError == [Kind |-> Unknown, cause |-> NilErr, s |-> <<>>, Meta |-> 0]

\* One argument of E: a string, a Kind, a MetaData, a map[string]interface{},
\* an *Error, a plain error, the untyped nil, or a value of another type.
StringArg(s) == [tag |-> "string", s |-> s, k |-> 0, at |-> 0]
KindArg(k) == [tag |-> "Kind", s |-> <<>>, k |-> k, at |-> 0]
MetaArg(m) == [tag |-> "MetaData", s |-> <<>>, k |-> 0, at |-> m]
MapArg(m) == [tag |-> "map", s |-> <<>>, k |-> 0, at |-> m]
ErrorArg(a) == [tag |-> "*Error", s |-> <<>>, k |-> 0, at |-> a]
PlainArg(l) == [tag |-> "error", s |-> <<>>, k |-> 0, at |-> l]
NilArg == [tag |-> "nil", s |-> <<>>, k |-> 0, at |-> 0]
OtherArg == [tag |-> "other", s |-> <<>>, k |-> 0, at |-> 0]

ArgValues ==
    {StringArg(s) : s \in Msgs}
    \cup {KindArg(k) : k \in KindArgs}
    \cup {MetaArg(m) : m \in 0..Len(maps)}
    \cup {MapArg(m) : m \in 0..Len(maps)}
    \cup {ErrorArg(a) : a \in 1..Len(recs)}
    \cup {PlainArg(l) : l \in 1..Len(leaves)}
    \cup {NilArg, OtherArg}

\* Free-form calls: every list of n arguments, for n up to MaxArgs.
ArgLists(n) == [1..n -> ArgValues]

ErrArgs == {ErrorArg(a) : a \in 1..Len(recs)} \cup {PlainArg(l) : l \in 1..Len(leaves)}
Opt(S) == {<<>>} \cup {<<x>> : x \in S}

\* Calls in the documented form E(err, msg, kind, meta), each but err optional.
DocArgLists ==
    {<<e>> \o m \o k \o d :
        e \in ErrArgs,
        m \in Opt({StringArg(s) : s \in Msgs}),
        k \in Opt({KindArg(k) : k \in KindArgs}),
        d \in Opt({MetaArg(m) : m \in 1..Len(maps)})}

\* Calls that only add a message to an error: E(msg, err) and E(err).
ChainArgLists == {m \o <<e>> : e \in ErrArgs, m \in Opt({StringArg(s) : s \in Msgs})}

\* ---------------------------------------------------------------- E

\* ESwitch keeping the first message and the first Kind instead of the last.
ESwitchFirstWins(st, arg) ==
    CASE arg.tag = "string" -> IF st.e.s = <<>> THEN [st EXCEPT !.e.s = arg.s] ELSE st
      [] arg.tag = "Kind" -> IF st.e.Kind = Unknown THEN [st EXCEPT !.e.Kind = arg.k] ELSE st
      [] arg.tag = "MetaData" -> [st EXCEPT !.e.Meta = arg.at]
      [] arg.tag = "map" ->
            LET meta == IF arg.at = 0 THEN {} ELSE {p : p \in st.maps[arg.at]}
            IN  [st EXCEPT !.maps = Append(st.maps, meta),
                           !.e.Meta = Len(st.maps) + 1]
      [] arg.tag = "*Error" ->
            LET copy == st.recs[arg.at]
            IN  [st EXCEPT !.recs = Append(st.recs, copy),
                           !.e.cause = RecAt(Len(st.recs) + 1),
                           !.orig = arg.at]
      [] arg.tag = "error" -> [st EXCEPT !.e.cause = LeafAt(arg.at), !.orig = 0]
      [] OTHER -> st

\* ESwitch taking the *Error argument itself as the cause instead of a copy.
ESwitchNoCopy(st, arg) ==
    CASE arg.tag = "string" -> [st EXCEPT !.e.s = arg.s]
      [] arg.tag = "Kind" -> [st EXCEPT !.e.Kind = arg.k]
      [] arg.tag = "MetaData" -> [st EXCEPT !.e.Meta = arg.at]
      [] arg.tag = "map" ->
            LET meta == IF arg.at = 0 THEN {} ELSE {p : p \in st.maps[arg.at]}
            IN  [st EXCEPT !.maps = Append(st.maps, meta),
                           !.e.Meta = Len(st.maps) + 1]
      [] arg.tag = "*Error" -> [st EXCEPT !.e.cause = RecAt(arg.at), !.orig = arg.at]
      [] arg.tag = "error" -> [st EXCEPT !.e.cause = LeafAt(arg.at), !.orig = 0]
      [] OTHER -> st

\* One iteration of E's type switch.  st is the local state of the call:
\* the record e being filled and the heaps.
ESwitch(st, arg) ==
    CASE arg.tag = "string" -> [st EXCEPT !.e.s = arg.s]
      [] arg.tag = "Kind" -> [st EXCEPT !.e.Kind = arg.k]
      [] arg.tag = "MetaData" -> [st EXCEPT !.e.Meta = arg.at]
      [] arg.tag = "map" ->
            LET meta == IF arg.at = 0 THEN {} ELSE {p : p \in st.maps[arg.at]}
            IN  [st EXCEPT !.maps = Append(st.maps, meta),
                           !.e.Meta = Len(st.maps) + 1]
      [] arg.tag = "*Error" ->
            LET copy == st.recs[arg.at]
            IN  [st EXCEPT !.recs = Append(st.recs, copy),
                           !.e.cause = RecAt(Len(st.recs) + 1),
                           !.orig = arg.at]
      [] arg.tag = "error" -> [st EXCEPT !.e.cause = LeafAt(arg.at), !.orig = 0]
      [] OTHER -> st

RECURSIVE ELoop(_, _, _)
ELoop(st, args, i) ==
    IF i > Len(args) THEN st ELSE ELoop(ESwitch(st, args[i]), args, i + 1)

\* EFill that never takes the cause's Kind.
EFillNoKind(e, heap) ==
    IF e.cause.tag = "rec"
    THEN IF e.Meta = 0 THEN [e EXCEPT !.Meta = heap[e.cause.at].Meta] ELSE e
    ELSE e

\* EFill that takes the cause's MetaData only when it takes the cause's Kind.
EFillMetaWithKind(e, heap) ==
    IF e.cause.tag = "rec" /\ e.Kind = Unknown
    THEN LET err == heap[e.cause.at]
             e1 == [e EXCEPT !.Kind = err.Kind]
         IN  IF e1.Meta = 0 THEN [e1 EXCEPT !.Meta = err.Meta] ELSE e1
    ELSE e

\* Fill missing fields in case the cause is an *Error.
EFill(e, heap) ==
    IF e.cause.tag = "rec"
    THEN LET err == heap[e.cause.at]
             e1 == IF e.Kind = Unknown THEN [e EXCEPT !.Kind = err.Kind] ELSE e
         IN  IF e1.Meta = 0 THEN [e1 EXCEPT !.Meta = err.Meta] ELSE e1
    ELSE e

\* ECall without the nil check on the cause.
ECallNoNilCheck(args) ==
    LET st == ELoop([e |-> ZeroError, recs |-> recs, maps |-> maps, orig |-> 0], args, 1)
    IN  [found |-> TRUE, e |-> EFill(st.e, st.recs), recs |-> st.recs,
         maps |-> st.maps, orig |-> st.orig]

\* The whole call: the final local state, with found = FALSE when E returns nil.
ECall(args) ==
    LET st == ELoop([e |-> ZeroError, recs |-> recs, maps |-> maps, orig |-> 0], args, 1)
    IN  IF st.e.cause = NilErr
        THEN [found |-> FALSE, e |-> st.e, recs |-> st.recs, maps |-> st.maps, orig |-> 0]
        ELSE [found |-> TRUE, e |-> EFill(st.e, st.recs), recs |-> st.recs,
              maps |-> st.maps, orig |-> st.orig]

\* ---------------------------------------------------------------- the last call

NoJSON == [keys |-> <<>>, detail |-> {}, type |-> "", error |-> <<>>, code |-> 0]
NoRet == [op |-> "none", args |-> <<>>, x |-> NilErr, k |-> 0, out |-> NilErr,
          b |-> FALSE, str |-> <<>>, json |-> NoJSON]

\* The caller is between two calls.
Idle == ret.op = "none"

Init ==
    /\ recs = <<>>
    /\ leaves = <<>>
    /\ maps = <<>>
    /\ origOf = <<>>
    /\ ret = NoRet

\* New(text): a plain error.  The caller makes one of each text.
New ==
    \E text \in LeafTexts :
        /\ Idle
        /\ \A l \in 1..Len(leaves) : leaves[l] # text
        /\ leaves' = Append(leaves, text)
        /\ ret' = [NoRet EXCEPT !.op = "New", !.out = LeafAt(Len(leaves) + 1)]
        /\ UNCHANGED <<recs, maps, origOf>>

\* MetaData{...}: the caller makes a map, one of each contents, before it
\* builds records.
MakeMeta ==
    \E c \in MapContents :
        /\ Idle
        /\ recs = <<>>
        /\ \A m \in 1..Len(maps) : maps[m] # c
        /\ maps' = Append(maps, c)
        /\ ret' = [NoRet EXCEPT !.op = "MakeMeta"]
        /\ UNCHANGED <<recs, leaves, origOf>>

\* E(args...), for args drawn from lists.  Of the objects the call allocates,
\* the ones the returned record refers to are kept: the copy of its cause and
\* its own map.  The call is made while the heap has room for both structs.
EWith(lists, maxRecs) ==
    /\ Idle
    /\ Len(recs) + 2 <= maxRecs
    /\ \E args \in lists :
        LET r == ECall(args)
            base == Len(recs)
            keepCopy == r.found /\ r.e.cause.tag = "rec" /\ r.e.cause.at > base
            keepMap == r.found /\ r.e.Meta > Len(maps)
            maps1 == IF keepMap THEN Append(maps, r.maps[r.e.Meta]) ELSE maps
            e1 == IF keepMap THEN [r.e EXCEPT !.Meta = Len(maps) + 1] ELSE r.e
            recs1 == IF keepCopy THEN Append(recs, r.recs[r.e.cause.at]) ELSE recs
            e2 == IF keepCopy THEN [e1 EXCEPT !.cause = RecAt(base + 1)] ELSE e1
            orig1 == IF keepCopy THEN Append(origOf, 0) ELSE origOf
        IN  IF r.found
            THEN /\ recs' = Append(recs1, e2)
                 /\ maps' = maps1
                 /\ origOf' = Append(orig1, r.orig)
                 /\ ret' = [NoRet EXCEPT !.op = "E", !.args = args,
                                         !.out = RecAt(Len(recs1) + 1)]
                 /\ UNCHANGED leaves
            ELSE /\ ret' = [NoRet EXCEPT !.op = "E", !.args = args, !.out = NilErr]
                 /\ UNCHANGED <<recs, leaves, maps, origOf>>

E == \E n \in 0..MaxArgs : EWith(ArgLists(n), MaxRecs)
EDoc == EWith(DocArgLists, MaxRecs)
EChain == EWith(ChainArgLists, MaxChainRecs)

\* ---------------------------------------------------------------- renderers

\* strings.Index: the 0-based index of the first instance of sub in str, or -1.
Index(str, sub) ==
    LET hits == {i \in 0..(Len(str) - Len(sub)) : SubSeq(str, i + 1, i + Len(sub)) = sub}
    IN  IF hits = {} THEN -1 ELSE CHOOSE i \in hits : \A j \in hits : i <= j

RECURSIVE ErrorOf(_)
\* Error that writes the separator after an empty message too.
ErrorErrorAlwaysSep(a) ==
    LET e == recs[a]
    IN  e.s \o <<":", " ">> \o ErrorOf(e.cause)

\* (*Error).Error: the message, then the cause's rendering.
ErrorError(a) ==
    LET e == recs[a]
        str == IF e.s # <<>> THEN e.s \o <<":", " ">> ELSE e.s
    IN  str \o ErrorOf(e.cause)

\* err.Error() on an error interface value.
ErrorOf(err) ==
    IF err.tag = "leaf" THEN leaves[err.at] ELSE ErrorError(err.at)

\* (*Error).Msg
Msg(a) ==
    LET str == ErrorError(a)
        pos == Index(str, <<":">>)
        cut == IF pos = -1 THEN Len(str) ELSE pos
    IN  SubSeq(str, 1, cut)

\* MarshalJSON without omitempty on detail.
MarshalJSONNoOmit(a) ==
    LET e == recs[a]
    IN  [keys |-> <<"detail", "type", "error", "code">>,
         detail |-> IF e.Meta = 0 THEN {} ELSE maps[e.Meta],
         type |-> KindString(e.Kind),
         error |-> Msg(a),
         code |-> e.Kind]

\* (*Error).MarshalJSON: the fields json.Marshal writes, in order.
MarshalJSON(a) ==
    LET e == recs[a]
        detail == IF e.Meta = 0 THEN {} ELSE maps[e.Meta]
        omit == Cardinality(detail) = 0
    IN  [keys |-> IF omit THEN <<"type", "error", "code">>
                  ELSE <<"detail", "type", "error", "code">>,
         detail |-> detail,
         type |-> KindString(e.Kind),
         error |-> Msg(a),
         code |-> e.Kind]

\* ---------------------------------------------------------------- accessors

\* (*Error).Cause
ErrorCause(a) == recs[a].cause

\* Cause that unwraps one link only.
CauseOneStep(err) ==
    IF err.tag = "rec" THEN ErrorCause(err.at) ELSE err

RECURSIVE Cause(_)
\* Cause(err): only *Error has a Cause method.
Cause(err) ==
    IF err = NilErr THEN err
    ELSE IF err.tag # "rec" THEN err
    ELSE Cause(ErrorCause(err.at))

RECURSIVE IsKindAnyLink(_, _)
\* IsKind that looks for the kind down the chain of causes.
IsKindAnyLink(err, kind) ==
    IF err.tag = "rec"
    THEN recs[err.at].Kind = kind \/ IsKindAnyLink(recs[err.at].cause, kind)
    ELSE FALSE

IsKind(err, kind) ==
    IF err.tag = "rec" THEN recs[err.at].Kind = kind ELSE FALSE

\* ---------------------------------------------------------------- calls

ErrValues ==
    {NilErr} \cup {LeafAt(l) : l \in 1..Len(leaves)} \cup {RecAt(a) : a \in 1..Len(recs)}

CallMsg ==
    \E a \in 1..Len(recs) :
        /\ Idle
        /\ ret' = [NoRet EXCEPT !.op = "Msg", !.x = RecAt(a), !.str = Msg(a)]
        /\ UNCHANGED <<recs, leaves, maps, origOf>>

CallError ==
    \E a \in 1..Len(recs) :
        /\ Idle
        /\ ret' = [NoRet EXCEPT !.op = "Error", !.x = RecAt(a), !.str = ErrorError(a)]
        /\ UNCHANGED <<recs, leaves, maps, origOf>>

CallMarshalJSON ==
    \E a \in 1..Len(recs) :
        /\ Idle
        /\ ret' = [NoRet EXCEPT !.op = "MarshalJSON", !.x = RecAt(a), !.json = MarshalJSON(a)]
        /\ UNCHANGED <<recs, leaves, maps, origOf>>

CallCause ==
    \E x \in ErrValues :
        /\ Idle
        /\ ret' = [NoRet EXCEPT !.op = "Cause", !.x = x, !.out = Cause(x)]
        /\ UNCHANGED <<recs, leaves, maps, origOf>>

CallIsKind ==
    \E x \in ErrValues, kind \in KindArgs :
        /\ Idle
        /\ ret' = [NoRet EXCEPT !.op = "IsKind", !.x = x, !.k = kind, !.b = IsKind(x, kind)]
        /\ UNCHANGED <<recs, leaves, maps, origOf>>

\* e.Kind = kind: the caller assigns the exported field of a record it holds.
SetKind ==
    \E a \in 1..Len(recs), kind \in KindArgs :
        /\ Idle
        /\ recs[a].Kind # kind
        /\ recs' = [recs EXCEPT ![a].Kind = kind]
        /\ ret' = [NoRet EXCEPT !.op = "SetKind"]
        /\ UNCHANGED <<leaves, maps, origOf>>

\* e.Meta = m: the caller assigns the exported field of a record it holds.
SetMeta ==
    \E a \in 1..Len(recs), m \in 0..Len(maps) :
        /\ Idle
        /\ recs[a].Meta # m
        /\ recs' = [recs EXCEPT ![a].Meta = m]
        /\ ret' = [NoRet EXCEPT !.op = "SetMeta"]
        /\ UNCHANGED <<leaves, maps, origOf>>

\* The caller is done with the result and goes on.
Resume ==
    /\ ~Idle
    /\ ret' = NoRet
    /\ UNCHANGED <<recs, leaves, maps, origOf>>

\* ---------------------------------------------------------------- specifications

\* Free-form calls of E.
Next ==
    \/ New
    \/ MakeMeta
    \/ E
    \/ Resume

Spec == Init /\ [][Next]_vars

\* Chains of messages over a plain error, rendered and unwrapped.
NextChain ==
    \/ New
    \/ EChain
    \/ CallError
    \/ CallMsg
    \/ CallCause
    \/ Resume

SpecChain == Init /\ [][NextChain]_vars

\* Records of every kind and metadata, classified and serialized.
NextQuery ==
    \/ New
    \/ MakeMeta
    \/ EDoc
    \/ CallIsKind
    \/ CallMarshalJSON
    \/ Resume

SpecQuery == Init /\ [][NextQuery]_vars

\* Records whose exported fields the caller reassigns.
NextFields ==
    \/ New
    \/ MakeMeta
    \/ EDoc
    \/ SetKind
    \/ SetMeta
    \/ Resume

SpecFields == Init /\ [][NextFields]_vars

\* ---------------------------------------------------------------- properties

\* The record a call of E has just returned, and the arguments it was built from.
Built == ret.op = "E" /\ ret.out # NilErr
NewRec == recs[ret.out.at]
IsErrShaped(arg) == arg.tag \in {"*Error", "error"}
IsMetaShaped(arg) == arg.tag \in {"MetaData", "map"}
Has(args, P(_)) == \E i \in 1..Len(args) : P(args[i])
LastIdx(args, P(_)) == CHOOSE i \in 1..Len(args) : P(args[i]) /\ \A j \in (i + 1)..Len(args) : ~P(args[j])
IsString(arg) == arg.tag = "string"
IsKindArg(arg) == arg.tag = "Kind"
Contents(m) == IF m = 0 THEN {} ELSE maps[m]

\* The record holds the metadata argument arg: the very map for a MetaData,
\* a map of its own with the same contents for a map[string]interface{}.
HoldsMeta(e, arg) ==
    IF arg.tag = "MetaData" THEN e.Meta = arg.at
    ELSE e.Meta # 0 /\ e.Meta # arg.at /\ maps[e.Meta] = Contents(arg.at)

C2_LastWinsAsStated ==
    Built =>
        /\ Has(ret.args, IsString) => NewRec.s = ret.args[LastIdx(ret.args, IsString)].s
        /\ Has(ret.args, IsKindArg) => NewRec.Kind = ret.args[LastIdx(ret.args, IsKindArg)].k
        /\ Has(ret.args, IsMetaShaped) =>
                HoldsMeta(NewRec, ret.args[LastIdx(ret.args, IsMetaShaped)])

\* C2 amended: the message is that of the last string; the Kind is that of the
\* last Kind, unless that is Unknown and the cause is an Error record, when it
\* is the cause's Kind; the MetaData is that of the last MetaData or map, unless
\* that is a nil MetaData and the cause is an Error record, when it is the
\* cause's MetaData.
C2_LastWins ==
    Built =>
        LET wraps == NewRec.cause.tag = "rec"
            inner == recs[NewRec.cause.at]
        IN  /\ Has(ret.args, IsString) => NewRec.s = ret.args[LastIdx(ret.args, IsString)].s
            /\ Has(ret.args, IsKindArg) =>
                    LET k == ret.args[LastIdx(ret.args, IsKindArg)].k
                    IN  NewRec.Kind = IF k = Unknown /\ wraps THEN inner.Kind ELSE k
            /\ Has(ret.args, IsMetaShaped) =>
                    LET d == ret.args[LastIdx(ret.args, IsMetaShaped)]
                    IN  IF d = MetaArg(0) /\ wraps THEN NewRec.Meta = inner.Meta
                        ELSE HoldsMeta(NewRec, d)

\* C2 witness: E(e, KindX, KindY) with two different Kinds, none Unknown, has
\* built a record of kind KindY.
C2_Witness ==
    /\ Built
    /\ Len(ret.args) = 3
    /\ IsErrShaped(ret.args[1])
    /\ ret.args[2].tag = "Kind" /\ ret.args[3].tag = "Kind"
    /\ ret.args[2].k # ret.args[3].k /\ ret.args[2].k # Unknown /\ ret.args[3].k # Unknown
    /\ NewRec.Kind = ret.args[3].k

\* The record the caller passed as the cause of the record just built.
Wraps == Built /\ origOf[ret.out.at] # 0
Inner == recs[origOf[ret.out.at]]

\* C3 as stated: wrapping an Error record, the new kind is the Kind the caller
\* supplied when one was supplied, and the wrapped record's kind otherwise; over
\* a plain error with no Kind supplied it is Unknown.
C3_KindAsStated ==
    /\ Wraps =>
        IF Has(ret.args, IsKindArg)
        THEN NewRec.Kind = ret.args[LastIdx(ret.args, IsKindArg)].k
        ELSE NewRec.Kind = Inner.Kind
    /\ (Built /\ ~Wraps /\ ~Has(ret.args, IsKindArg)) => NewRec.Kind = Unknown

\* C3 amended: wrapping an Error record, the new kind is the last Kind the
\* caller supplied when that is not Unknown, and the wrapped record's kind when
\* no Kind was supplied or the last one supplied is Unknown; over a plain error
\* it is the last Kind supplied, and Unknown when none was.
C3_Kind ==
    /\ Wraps =>
        LET k == IF Has(ret.args, IsKindArg)
                 THEN ret.args[LastIdx(ret.args, IsKindArg)].k ELSE Unknown
        IN  NewRec.Kind = IF k # Unknown THEN k ELSE Inner.Kind
    /\ (Built /\ ~Wraps) =>
        NewRec.Kind = IF Has(ret.args, IsKindArg)
                      THEN ret.args[LastIdx(ret.args, IsKindArg)].k ELSE Unknown

\* C3 witness: a record of a kind other than Unknown has been wrapped with no
\* Kind supplied, and the new record carries that kind.
C3_Witness ==
    /\ Wraps
    /\ ~Has(ret.args, IsKindArg)
    /\ Inner.Kind # Unknown
    /\ NewRec.Kind = Inner.Kind

\* C4 as stated: wrapping an Error record, the new record shares the wrapped
\* record's MetaData when the caller supplied none, and holds the caller's
\* when the caller supplied one, whether or not a Kind was supplied.
C4_MetaAsStated ==
    Wraps =>
        IF Has(ret.args, IsMetaShaped)
        THEN HoldsMeta(NewRec, ret.args[LastIdx(ret.args, IsMetaShaped)])
        ELSE NewRec.Meta = Inner.Meta

\* C4 amended: wrapping an Error record, the new record shares the wrapped
\* record's MetaData (the same map) when the caller supplied none or the last
\* one supplied is a nil MetaData; otherwise it holds the last one the caller
\* supplied, the very map for a MetaData and a copy for a map; whether or not
\* a Kind was supplied.
C4_Meta ==
    Wraps =>
        LET inherits == \/ ~Has(ret.args, IsMetaShaped)
                        \/ ret.args[LastIdx(ret.args, IsMetaShaped)] = MetaArg(0)
        IN  IF inherits THEN NewRec.Meta = Inner.Meta
            ELSE HoldsMeta(NewRec, ret.args[LastIdx(ret.args, IsMetaShaped)])

\* C4 witness: a record with a map has been wrapped with a Kind and no
\* MetaData, and the new record refers to the same map.
C4_Witness ==
    /\ Wraps
    /\ ~Has(ret.args, IsMetaShaped)
    /\ Has(ret.args, IsKindArg)
    /\ NewRec.Kind # Inner.Kind
    /\ Inner.Meta # 0
    /\ NewRec.Meta = Inner.Meta

\* The messages of the links of a chain, outermost first, and the plain error
\* at its end.
RECURSIVE LinkMsgs(_)
LinkMsgs(err) ==
    IF err.tag = "rec" THEN <<recs[err.at].s>> \o LinkMsgs(recs[err.at].cause) ELSE <<>>
RECURSIVE Depth(_)
Depth(err) == IF err.tag = "rec" THEN 1 + Depth(recs[err.at].cause) ELSE 0
RECURSIVE LeafUnder(_)
LeafUnder(err) == IF err.tag = "rec" THEN LeafUnder(recs[err.at].cause) ELSE err
NonEmpty(s) == s # <<>>
RECURSIVE Join(_)
Join(parts) ==
    IF Len(parts) = 0 THEN <<>>
    ELSE IF Len(parts) = 1 THEN parts[1]
    ELSE parts[1] \o <<":", " ">> \o Join(Tail(parts))

\* C5: Error() of a record over a plain leaf error is the non-empty link
\* messages, outermost first, then the leaf's text, joined by ": ".
C5_ChainedMessage ==
    ret.op = "Error" =>
        ret.str = Join(SelectSeq(LinkMsgs(ret.x), NonEmpty)
                       \o <<leaves[LeafUnder(ret.x).at]>>)

\* C5 witness: Error() has rendered a chain of three links, one of them with
\* an empty message and one with a message.
C5_Witness ==
    /\ ret.op = "Error"
    /\ Depth(ret.x) = 3
    /\ \E i, j \in 1..3 : LinkMsgs(ret.x)[i] = <<>> /\ LinkMsgs(ret.x)[j] # <<>>

\* The text before the first instance of sep in str, and all of str when
\* there is none.
Before(str, sep) ==
    LET starts == {i \in 1..(Len(str) - Len(sep) + 1) : SubSeq(str, i, i + Len(sep) - 1) = sep}
    IN  IF starts = {} THEN str
        ELSE SubSeq(str, 1, (CHOOSE i \in starts : \A j \in starts : i <= j) - 1)

\* C6: Msg() is the chained message up to, and without, the first ": "; so a
\* record with a message of its own returns exactly that message.
C6_ShortMessage ==
    ret.op = "Msg" =>
        /\ ret.str = Before(ErrorError(ret.x.at), <<":", " ">>)
        /\ recs[ret.x.at].s # <<>> => ret.str = recs[ret.x.at].s

\* C9: Cause(x) is nil for nil, x for a plain error, and for a record the plain
\* error at the end of its chain, which every record has since a cause is
\* allocated before the record holding it; the result has no Cause method, so
\* Cause of it is itself.
C9_Cause ==
    /\ \A a \in 1..Len(recs) : recs[a].cause.tag = "rec" => recs[a].cause.at < a
    /\ ret.op = "Cause" =>
        /\ ret.out.tag # "rec"
        /\ ret.x = NilErr => ret.out = NilErr
        /\ ret.x.tag = "leaf" => ret.out = ret.x
        /\ ret.x.tag = "rec" => ret.out.tag = "leaf" /\ ret.out = LeafUnder(ret.x)
        /\ Cause(ret.out) = ret.out

\* C9 witness: Cause has unwrapped a chain of three links down to its leaf.
C9_Witness ==
    /\ ret.op = "Cause"
    /\ Depth(ret.x) = 3
    /\ ret.out.tag = "leaf"

\* The labels and the ordinals of the Kinds the records are built with.
LabelOf(k) ==
    IF k = Unknown THEN "Unknown error"
    ELSE IF k = IO THEN "I/O error"
    ELSE "invalid encryption"
OrdinalOf(label) ==
    IF label = "Unknown error" THEN 0
    ELSE IF label = "I/O error" THEN 3
    ELSE 8

C8_IsKind ==
    ret.op = "IsKind" =>
        (ret.b <=> (ret.x.tag = "rec" /\ recs[ret.x.at].Kind = ret.k))

\* C8 witness: IsKind has answered false for a record of another kind whose
\* cause is a record of the kind asked for.
C8_Witness ==
    /\ ret.op = "IsKind"
    /\ ret.x.tag = "rec"
    /\ ~ret.b
    /\ recs[ret.x.at].cause.tag = "rec"
    /\ recs[recs[ret.x.at].cause.at].Kind = ret.k

\* C10: a call of E leaves every record already on the heap as it was, and the
\* cause of the record it builds from a record orig is a snapshot of orig: it
\* has orig's kind and metadata of that moment, and from then on a change of
\* orig's fields changes neither the new record nor its cause, and a change
\* of the new record or of its cause does not change orig.
IsolatedStep ==
    /\ Len(recs') > Len(recs) =>
        /\ \A a \in 1..Len(recs) : recs'[a] = recs[a]
        /\ origOf'[Len(recs')] # 0 =>
            LET orig == recs[origOf'[Len(recs')]]
                snap == recs'[recs'[Len(recs')].cause.at]
            IN  snap = orig
    /\ \A n \in 1..Len(recs) :
        origOf[n] # 0 =>
            (recs'[origOf[n]] # recs[origOf[n]] =>
                /\ recs'[n] = recs[n]
                /\ recs'[recs[n].cause.at] = recs[recs[n].cause.at])

C10_Isolation == [][IsolatedStep]_vars

\* C10 witness: the caller has changed the kind of a record after another
\* record was built from it, and the newer record and its cause still have the
\* kind of the moment the newer record was built.
C10_Witness ==
    /\ ret.op = "SetKind"
    /\ \E n \in 1..Len(recs) :
        /\ origOf[n] # 0
        /\ recs[recs[n].cause.at].Kind # recs[origOf[n]].Kind
        /\ recs[n].Kind = recs[recs[n].cause.at].Kind

====
